---------------------------- MODULE Spec2Model ----------------------------
(***************************************************************************)
(* Model of coursebuilder/modules/dashboard/question_editor.py: the        *)
(* validation rules of the multiple-choice and short-answer question       *)
(* editors, the clone operation and the GIFT bulk-import handler, over a   *)
(* datastore of Question and QuestionGroup records.                        *)
(*                                                                         *)
(* Python strings are sequences of one-character strings, so that strip(), *)
(* int(), float(), long() and str() are computed and not assumed.          *)
(***************************************************************************)
EXTENDS Integers, Sequences, FiniteSets, TLC

VARIABLES questions, groups, req, vcall

vars == <<questions, groups, req, vcall>>

-----------------------------------------------------------------------------
(* Bounds of the model.                                                    *)

MaxStored == 2      \* stored questions in a validation scenario
MaxChoices == 2     \* choices of a submitted multiple-choice question
MaxGraders == 1     \* graders of a submitted short-answer question
MaxQuestions == 3   \* stored questions in the datastore of Spec
MaxGroups == 2      \* stored question groups in the datastore of Spec

-----------------------------------------------------------------------------
(* Python string primitives.                                               *)

Whitespace == {" "}
Digits == {"0", "1", "2", "3", "4", "5", "6", "7", "8", "9"}

DigitVal(c) ==
    CASE c = "0" -> 0 [] c = "1" -> 1 [] c = "2" -> 2 [] c = "3" -> 3
      [] c = "4" -> 4 [] c = "5" -> 5 [] c = "6" -> 6 [] c = "7" -> 7
      [] c = "8" -> 8 [] c = "9" -> 9

DigitChar(d) ==
    CASE d = 0 -> "0" [] d = 1 -> "1" [] d = 2 -> "2" [] d = 3 -> "3"
      [] d = 4 -> "4" [] d = 5 -> "5" [] d = 6 -> "6" [] d = 7 -> "7"
      [] d = 8 -> "8" [] d = 9 -> "9"

RECURSIVE LStrip(_)
LStrip(s) ==
    IF s = <<>> THEN s
    ELSE IF Head(s) \in Whitespace THEN LStrip(Tail(s)) ELSE s

RECURSIVE RStrip(_)
RStrip(s) ==
    IF s = <<>> THEN s
    ELSE IF s[Len(s)] \in Whitespace THEN RStrip(SubSeq(s, 1, Len(s) - 1))
    ELSE s

\* str.strip()
Strip(s) == RStrip(LStrip(s))

AllDigits(s) == \A i \in 1..Len(s) : s[i] \in Digits

RECURSIVE DigitsVal(_)
DigitsVal(s) ==
    IF s = <<>> THEN 0
    ELSE 10 * DigitsVal(SubSeq(s, 1, Len(s) - 1)) + DigitVal(s[Len(s)])

Unsigned(t) == IF t # <<>> /\ Head(t) \in {"-", "+"} THEN Tail(t) ELSE t
Sign(t) == IF t # <<>> /\ Head(t) = "-" THEN -1 ELSE 1

\* int(s) and long(s) of a string: surrounding blanks are ignored, then an
\* optional sign and one or more digits; anything else raises ValueError.
ParseInt(s) ==
    LET t == Strip(s)
        d == Unsigned(t)
    IN  IF d # <<>> /\ AllDigits(d)
        THEN [ok |-> TRUE, v |-> Sign(t) * DigitsVal(d)]
        ELSE [ok |-> FALSE, v |-> 0]

DotPositions(d) == {i \in 1..Len(d) : d[i] = "."}

\* float(s) of a string: surrounding blanks are ignored, then an optional
\* sign and digits with at most one decimal point and at least one digit;
\* anything else raises ValueError.  The value is n / 10^e.  (Exponents,
\* 'inf' and 'nan' need letters that no submitted score of the model has.)
ParseFloat(s) ==
    LET t == Strip(s)
        d == Unsigned(t)
        dots == DotPositions(d)
        p == IF dots = {} THEN Len(d) + 1 ELSE CHOOSE i \in dots : TRUE
        ip == SubSeq(d, 1, p - 1)
        fp == SubSeq(d, p + 1, Len(d))
    IN  IF Cardinality(dots) <= 1 /\ AllDigits(ip) /\ AllDigits(fp)
           /\ Len(ip) + Len(fp) > 0
        THEN [ok |-> TRUE, n |-> Sign(t) * DigitsVal(ip \o fp), e |-> Len(fp)]
        ELSE [ok |-> FALSE, n |-> 0, e |-> 0]

RECURSIVE IntToStr(_)
\* str(x) of a non-negative integer
IntToStr(n) ==
    IF n < 10 THEN <<DigitChar(n)>>
    ELSE IntToStr(n \div 10) \o <<DigitChar(n % 10)>>

\* Typed values of a question dictionary.
StrVal(s) == [t |-> "str", s |-> s, n |-> 0, e |-> 0]
IntVal(v) == [t |-> "int", s |-> <<>>, n |-> v, e |-> 0]
FloatVal(n, e) == [t |-> "float", s |-> <<>>, n |-> n, e |-> e]

\* An entry of the errors list: the message and the number formatted into it
\* (0 when the message has no %s).
Err(msg) == [msg |-> msg, idx |-> 0]
ErrAt(msg, i) == [msg |-> msg, idx |-> i]


-----------------------------------------------------------------------------
(* The datastore.  questions is what QuestionDAO.get_all() returns, in the *)
(* order of the ids; groups is what QuestionGroupDAO.get_all() returns.    *)
(* A stored question is kept as the fields this module reads: id, type and *)
(* description.                                                            *)

MULTIPLE_CHOICE == "MULTIPLE_CHOICE"
SHORT_ANSWER == "SHORT_ANSWER"

Question(id, type, description) ==
    [id |-> id, type |-> type, description |-> description]

-----------------------------------------------------------------------------
(* BaseQuestionRESTHandler                                                 *)

sanitize_input_dict(json_dict) ==
    [json_dict EXCEPT !.description = Strip(json_dict.description)]

\* A variant that compares every stored question, whatever the key.
validate_no_description_collision_any_key(description, key, errors) ==
    IF description \in {questions[i].description : i \in 1..Len(questions)}
    THEN Append(errors,
             Err("The description must be different from existing questions."))
    ELSE errors

validate_no_description_collision(description, key, errors) ==
    LET descriptions ==
            {questions[i].description : i \in
                {j \in 1..Len(questions) :
                    key = <<>> \/ questions[j].id # ParseInt(key).v}}
    IN  IF description \in descriptions
        THEN Append(errors,
                 Err("The description must be different from existing questions."))
        ELSE errors

-----------------------------------------------------------------------------
(* McQuestionRESTHandler                                                   *)

\* A variant that reports the loop index, which counts from 0.
McChoiceStepZeroBased(choice, index, errors) ==
    LET e1 == IF Strip(choice.text) = <<>>
              THEN Append(errors,
                       ErrAt("Choice %s has no response text.", index))
              ELSE errors
        f == ParseFloat(choice.score.s)
    IN  IF f.ok
        THEN [choice |-> [choice EXCEPT !.score = FloatVal(f.n, f.e)],
              errors |-> e1]
        ELSE [choice |-> choice,
              errors |-> Append(e1,
                  ErrAt("Choice %s must have a numeric score.", index))]

\* One pass of the loop over the choices; index counts from 0.
McChoiceStep(choice, index, errors) ==
    LET e1 == IF Strip(choice.text) = <<>>
              THEN Append(errors,
                       ErrAt("Choice %s has no response text.", index + 1))
              ELSE errors
        f == ParseFloat(choice.score.s)
    IN  IF f.ok
        THEN [choice |-> [choice EXCEPT !.score = FloatVal(f.n, f.e)],
              errors |-> e1]
        ELSE [choice |-> choice,
              errors |-> Append(e1,
                  ErrAt("Choice %s must have a numeric score.", index + 1))]

RECURSIVE McChoicesLoop(_, _, _)
McChoicesLoop(choices, index, errors) ==
    IF index >= Len(choices) THEN [choices |-> choices, errors |-> errors]
    ELSE LET r == McChoiceStep(choices[index + 1], index, errors)
         IN  McChoicesLoop([choices EXCEPT ![index + 1] = r.choice],
                           index + 1, r.errors)

\* Returns the question dictionary and the errors list as the call leaves them.
Mc_validate15(question_dict, key, errors) ==
    LET e1 == IF Strip(question_dict.question) = <<>>
              THEN Append(errors, Err("The question must have a non-empty body."))
              ELSE errors
        e2 == IF question_dict.description = <<>>
              THEN Append(e1, Err("The description must be non-empty."))
              ELSE e1
        e3 == validate_no_description_collision(
                  question_dict.description, key, e2)
        e4 == IF question_dict.choices = <<>>
              THEN Append(e3, Err("The question must have at least one choice."))
              ELSE e3
        r == McChoicesLoop(question_dict.choices, 0, e4)
    IN  [dict |-> [question_dict EXCEPT !.choices = r.choices],
         errors |-> r.errors]

-----------------------------------------------------------------------------
(* SaQuestionRESTHandler                                                   *)

GRADER_TYPES == {"case_insensitive", "regex", "numeric"}

\* A variant that accepts 0.
SaCoerceWholeNonNegative(value, positive_msg, whole_msg, errors) ==
    LET p == ParseInt(value.s)
    IN  IF p.ok
        THEN [value |-> IntVal(p.v),
              errors |-> IF p.v < 0 THEN Append(errors, Err(positive_msg))
                         ELSE errors]
        ELSE [value |-> value, errors |-> Append(errors, Err(whole_msg))]

\* try: d[field] = int(d[field]); if d[field] <= 0: error
\* except ValueError: error
SaCoerceWhole(value, positive_msg, whole_msg, errors) ==
    LET p == ParseInt(value.s)
    IN  IF p.ok
        THEN [value |-> IntVal(p.v),
              errors |-> IF p.v <= 0 THEN Append(errors, Err(positive_msg))
                         ELSE errors]
        ELSE [value |-> value, errors |-> Append(errors, Err(whole_msg))]

\* One pass of the loop over the graders; index counts from 0.  The result
\* of float() is dropped: the grader keeps the score it came with.
SaGraderStep(grader, index, errors) ==
    LET e1 == IF Strip(grader.response) = <<>>
              THEN Append(errors,
                       ErrAt("Answer %s has no response text.", index + 1))
              ELSE errors
        f == ParseFloat(grader.score.s)
    IN  IF f.ok
        THEN [grader |-> grader, errors |-> e1]
        ELSE [grader |-> grader,
              errors |-> Append(e1,
                  ErrAt("Answer %s must have a numeric score.", index + 1))]

RECURSIVE SaGradersLoop(_, _, _)
SaGradersLoop(graders, index, errors) ==
    IF index >= Len(graders) THEN [graders |-> graders, errors |-> errors]
    ELSE LET r == SaGraderStep(graders[index + 1], index, errors)
         IN  SaGradersLoop([graders EXCEPT ![index + 1] = r.grader],
                           index + 1, r.errors)

\* Returns the question dictionary and the errors list as the call leaves them.
Sa_validate15(question_dict, key, errors) ==
    LET e1 == IF Strip(question_dict.question) = <<>>
              THEN Append(errors, Err("The question must have a non-empty body."))
              ELSE errors
        e2 == IF question_dict.description = <<>>
              THEN Append(e1, Err("The description must be non-empty."))
              ELSE e1
        e3 == validate_no_description_collision(
                  question_dict.description, key, e2)
        rw == SaCoerceWhole(question_dict.rows,
                  "Rows must be a positive whole number",
                  "Rows must be a whole number", e3)
        cl == SaCoerceWhole(question_dict.columns,
                  "Columns must be a positive whole number",
                  "Columns must be a whole number", rw.errors)
        e6 == IF question_dict.graders = <<>>
              THEN Append(cl.errors,
                       Err("The question must have at least one answer."))
              ELSE cl.errors
        r == SaGradersLoop(question_dict.graders, 0, e6)
    IN  [dict |-> [question_dict EXCEPT !.rows = rw.value,
                                        !.columns = cl.value,
                                        !.graders = r.graders],
         errors |-> r.errors]

\* The assert at the head of the loop over the graders.
SaMatchersKnown(question_dict) ==
    \A i \in 1..Len(question_dict.graders) :
        question_dict.graders[i].matcher \in GRADER_TYPES

-----------------------------------------------------------------------------
(* QuestionManagerAndEditor                                                *)

CloneSuffix == <<" ", "(", "c", "l", "o", "n", "e", ")">>

\* The question post_clone_question saves, from the one it loaded.
post_clone_question(original_question, new_id) ==
    Question(new_id, original_question.type,
             original_question.description \o CloneSuffix)

-----------------------------------------------------------------------------
(* GiftQuestionRESTHandler                                                 *)

RECURSIVE validate_question_descriptions(_, _)
\* The loop over the parsed questions, against the stored descriptions.
validate_question_descriptions(qs, errors) ==
    LET descriptions == {questions[i].description : i \in 1..Len(questions)}
    IN  IF qs = <<>> THEN errors
        ELSE validate_question_descriptions(Tail(qs),
                 IF Head(qs).description \in descriptions
                 THEN Append(errors,
                     Err("The description must be different from existing questions."))
                 ELSE errors)

\* A variant that never reports a group description.
validate_group_description_unchecked(group_description, errors) == errors

validate_group_description(group_description, errors) ==
    LET descriptions == {groups[i].description : i \in 1..Len(groups)}
    IN  IF group_description \in descriptions
        THEN Append(errors, Err("Non-unique group description."))
        ELSE errors

RECURSIVE ConvertLoop(_, _)
ConvertLoop(qs, dtos) ==
    IF qs = <<>> THEN dtos
    ELSE ConvertLoop(Tail(qs),
             Append(dtos,
                 Question(0,
                     IF Head(qs).type = "multi_choice" THEN MULTIPLE_CHOICE
                     ELSE SHORT_ANSWER,
                     Head(qs).description)))

\* A DTO not yet saved has id 0 (None).
convert_to_dtos(qs) == ConvertLoop(qs, <<>>)

\* A variant that lists the questions by position instead of by id.
create_group_by_position(description, question_ids) ==
    [description |-> description,
     introduction |-> <<>>,
     items |-> [i \in 1..Len(question_ids) |->
                   [question |-> IntToStr(i), weight |-> FloatVal(10, 1)]]]

\* The dictionary handed to QuestionGroupDAO.create_question_group.
create_group(description, question_ids) ==
    [description |-> description,
     introduction |-> <<>>,
     items |-> [i \in 1..Len(question_ids) |->
                   [question |-> IntToStr(question_ids[i]),
                    weight |-> FloatVal(10, 1)]]]

-----------------------------------------------------------------------------
(* Requests in flight at GiftQuestionRESTHandler.put.                      *)

Requests == {"r1", "r2"}

NoResponse == [code |-> 0, message |-> "none"]

IdleReq ==
    [pc |-> "idle", tokenOk |-> FALSE, isAdmin |-> FALSE,
     description |-> <<>>, parseOk |-> FALSE, parsed |-> <<>>,
     errors |-> <<>>, seenQ |-> {}, seenG |-> {}, dtos |-> <<>>,
     ids |-> <<>>, group |-> 0, trace |-> <<>>, response |-> NoResponse]

-----------------------------------------------------------------------------
(* Validation scenarios: a datastore, a submitted dictionary and a key,    *)
(* then one call of a validation method.                                   *)

SeqsUpTo(S, n) == UNION {[1..k -> S] : k \in 0..n}

StoredDescriptions == {<<"a">>, <<"b">>}
ValStores ==
    {[i \in 1..Len(ds) |-> Question(i, MULTIPLE_CHOICE, ds[i])] :
        ds \in SeqsUpTo(StoredDescriptions, MaxStored)}

BodySamples == {<<" ">>, <<" ", "q", " ">>}
DescriptionSamples == {<<>>, <<"a">>, <<"b">>}
KeySamples == {<<>>, <<"1">>, <<"2">>}
TextSamples == {<<" ">>, <<"t">>}
ScoreSamples == {<<"1">>, <<"0", ".", "5">>, <<"x">>}
RowsSamples == {<<"2">>, <<"0">>, <<"-", "1">>, <<"1", ".", "5">>, <<"x">>}
ColumnsSamples == {<<" ", "3">>, <<"0">>, <<>>}
MatcherSamples == {"case_insensitive"}

ChoiceSamples ==
    {[text |-> t, score |-> StrVal(sc)] : t \in TextSamples, sc \in ScoreSamples}
GraderSamples ==
    {[matcher |-> m, response |-> t, score |-> StrVal(sc)] :
        m \in MatcherSamples, t \in TextSamples, sc \in ScoreSamples}

McDicts ==
    {[question |-> b, description |-> d, choices |-> cs] :
        b \in BodySamples, d \in DescriptionSamples,
        cs \in SeqsUpTo(ChoiceSamples, MaxChoices)}
SaDicts ==
    {[question |-> b, description |-> d, rows |-> StrVal(rw),
      columns |-> StrVal(cl), graders |-> gs] :
        b \in BodySamples, d \in DescriptionSamples, rw \in RowsSamples,
        cl \in ColumnsSamples, gs \in SeqsUpTo(GraderSamples, MaxGraders)}

PriorErrors == {<<>>, <<Err("The description must be non-empty.")>>}

NoCall ==
    [op |-> "none", st |-> "none", qin |-> <<>>, key |-> <<>>,
     prior |-> <<>>, errors |-> <<>>, qout |-> <<>>]
Call(op, dict, key, errors) ==
    [op |-> op, st |-> "pending", qin |-> dict, key |-> key,
     prior |-> errors, errors |-> errors, qout |-> dict]

PendingCalls ==
    {Call("collision", [description |-> d], k, e) :
        d \in DescriptionSamples, k \in KeySamples, e \in PriorErrors}
    \cup {Call("mc", d, k, <<>>) : d \in McDicts, k \in KeySamples}
    \cup {Call("sa", d, k, <<>>) : d \in SaDicts, k \in KeySamples}

InitVal ==
    /\ questions \in ValStores
    /\ groups = <<>>
    /\ req = [r \in Requests |-> IdleReq]
    /\ vcall \in PendingCalls

CallCollision ==
    /\ vcall.op = "collision" /\ vcall.st = "pending"
    /\ vcall' = [vcall EXCEPT
           !.st = "returned",
           !.errors = validate_no_description_collision(
                          vcall.qin.description, vcall.key, vcall.errors)]
    /\ UNCHANGED <<questions, groups, req>>

CallMcValidate ==
    /\ vcall.op = "mc" /\ vcall.st = "pending"
    /\ LET r == Mc_validate15(vcall.qin, vcall.key, vcall.errors)
       IN  vcall' = [vcall EXCEPT !.st = "returned", !.errors = r.errors,
                                  !.qout = r.dict]
    /\ UNCHANGED <<questions, groups, req>>

CallSaValidate ==
    /\ vcall.op = "sa" /\ vcall.st = "pending"
    /\ SaMatchersKnown(vcall.qin)
    /\ LET r == Sa_validate15(vcall.qin, vcall.key, vcall.errors)
       IN  vcall' = [vcall EXCEPT !.st = "returned", !.errors = r.errors,
                                  !.qout = r.dict]
    /\ UNCHANGED <<questions, groups, req>>

NextVal == CallCollision \/ CallMcValidate \/ CallSaValidate

SpecVal == InitVal /\ [][NextVal]_vars

-----------------------------------------------------------------------------
(* The datastore access layer, as this module uses it: save and save_all   *)
(* give new entities the next ids in order and return them.                *)

NextIds(n) == [i \in 1..n |-> Len(questions) + i]

SaveAll(dtos) ==
    questions \o [i \in 1..Len(dtos) |->
                     [dtos[i] EXCEPT !.id = Len(questions) + i]]

StoredKeys == {IntToStr(questions[i].id) : i \in 1..Len(questions)}

Load(key) == questions[CHOOSE i \in 1..Len(questions) :
                           questions[i].id = ParseInt(key).v]

-----------------------------------------------------------------------------
(* The editors' put (dto_editor.BaseDatastoreRestHandler.put): sanitize,   *)
(* validate, and save when validate reported no errors.                    *)

EditorDescriptions == {<<>>, <<"a">>, <<"b", " ">>}

EditorDicts(handler) ==
    IF handler = "mc"
    THEN {[question |-> <<"q">>, description |-> d,
           choices |-> <<[text |-> <<"t">>, score |-> StrVal(<<"1">>)]>>] :
             d \in EditorDescriptions}
    ELSE {[question |-> <<"q">>, description |-> d,
           rows |-> StrVal(<<"2">>), columns |-> StrVal(<<"3">>),
           graders |-> <<[matcher |-> "regex", response |-> <<"t">>,
                          score |-> StrVal(<<"1">>)]>>] :
             d \in EditorDescriptions}

Validate(handler, dict, key) ==
    IF handler = "mc" THEN Mc_validate15(dict, key, <<>>)
    ELSE Sa_validate15(dict, key, <<>>)

\* pre_save_hook
QuestionType(handler) ==
    IF handler = "mc" THEN MULTIPLE_CHOICE ELSE SHORT_ANSWER

EditorPut(handler, key, dict) ==
    LET d == sanitize_input_dict(dict)
        r == Validate(handler, d, key)
    IN  /\ IF r.errors # <<>> THEN UNCHANGED questions
           ELSE IF key = <<>>
           THEN /\ Len(questions) < MaxQuestions
                /\ questions' = Append(questions,
                       Question(Len(questions) + 1, QuestionType(handler),
                                r.dict.description))
           ELSE questions' =
                    [i \in 1..Len(questions) |->
                        IF questions[i].id = ParseInt(key).v
                        THEN Question(questions[i].id, QuestionType(handler),
                                      r.dict.description)
                        ELSE questions[i]]
        /\ UNCHANGED <<groups, req, vcall>>

PostCloneQuestion(key) ==
    /\ Len(questions) < MaxQuestions
    /\ questions' = Append(questions,
           post_clone_question(Load(key), Len(questions) + 1))
    /\ UNCHANGED <<groups, req, vcall>>

-----------------------------------------------------------------------------
(* GiftQuestionRESTHandler.put, one action per datastore call.             *)

GroupDescriptions == {<<"g">>, <<"h">>}

ParsedQuestion(type, description) ==
    [type |-> type, description |-> description]

\* What gift.GiftParser.parse_questions makes of the submitted text: a list
\* of question records, or ParseError.
GiftSamples ==
    {[ok |-> FALSE, questions |-> <<>>],
     [ok |-> TRUE, questions |-> <<ParsedQuestion("multi_choice", <<"a">>)>>],
     [ok |-> TRUE, questions |-> <<ParsedQuestion("short_answer", <<"b">>),
                                   ParsedQuestion("multi_choice", <<"a">>)>>],
     [ok |-> TRUE, questions |-> <<ParsedQuestion("true_false", <<"b">>),
                                   ParsedQuestion("numeric", <<"b">>)>>]}

\* The payload of a request; put reads it only once the request is authorised.
Payloads(tokenOk, isAdmin) ==
    IF tokenOk /\ isAdmin
    THEN {[description |-> d, questions |-> g] :
             d \in GroupDescriptions, g \in GiftSamples}
    ELSE {[description |-> <<>>, questions |-> [ok |-> FALSE, questions |-> <<>>]]}

XsrfFailed == [code |-> 403, message |-> "Bad XSRF token."]
AccessDenied == [code |-> 401, message |-> "Access denied."]
ValidationError == [code |-> 412, message |-> "validation_error"]
Saved == [code |-> 200, message |-> "Saved"]

\* A variant without the role check.
AuthCheckRoleSkipped(tokenOk, isAdmin) ==
    IF ~tokenOk THEN [trace |-> <<"xsrf">>, response |-> XsrfFailed]
    ELSE [trace |-> <<"xsrf", "role">>, response |-> NoResponse]

\* The XSRF and role checks: the calls made and the response, if one is sent.
AuthCheck(tokenOk, isAdmin) ==
    IF ~tokenOk THEN [trace |-> <<"xsrf">>, response |-> XsrfFailed]
    ELSE IF ~isAdmin
    THEN [trace |-> <<"xsrf", "role">>, response |-> AccessDenied]
    ELSE [trace |-> <<"xsrf", "role">>, response |-> NoResponse]

\* if not errors
MaySave(errors) == errors = <<>>

Finish(q, errors, response) ==
    [q EXCEPT !.pc = "done", !.errors = errors, !.response = response]

PutBegin(r, tokenOk, isAdmin, payload) ==
    /\ req[r].pc \in {"idle", "done"}
    /\ LET a == AuthCheck(tokenOk, isAdmin)
           q == [IdleReq EXCEPT !.tokenOk = tokenOk, !.isAdmin = isAdmin,
                                !.trace = a.trace]
           gift == payload.questions
           p == [q EXCEPT !.description = payload.description,
                          !.parseOk = gift.ok,
                          !.parsed = gift.questions,
                          !.trace = Append(a.trace, "parse")]
       IN  req' = [req EXCEPT ![r] =
               IF a.response # NoResponse THEN Finish(q, <<>>, a.response)
               ELSE IF ~gift.ok
               THEN Finish(p, <<Err("ParseError")>>, ValidationError)
               ELSE [p EXCEPT !.pc = "validate_questions"]]
    /\ UNCHANGED <<questions, groups, vcall>>

PutValidateQuestions(r) ==
    /\ req[r].pc = "validate_questions"
    /\ LET q == req[r]
       IN  req' = [req EXCEPT ![r] =
               [q EXCEPT !.pc = "validate_group",
                         !.errors = validate_question_descriptions(
                                        q.parsed, q.errors),
                         !.seenQ = {questions[i].description :
                                       i \in 1..Len(questions)},
                         !.trace = Append(q.trace, "get_all_questions")]]
    /\ UNCHANGED <<questions, groups, vcall>>

PutValidateGroup(r) ==
    /\ req[r].pc = "validate_group"
    /\ LET q == req[r]
           errors == validate_group_description(q.description, q.errors)
           v == [q EXCEPT !.seenG = {groups[i].description :
                                        i \in 1..Len(groups)},
                          !.trace = Append(q.trace, "get_all_groups")]
       IN  req' = [req EXCEPT ![r] =
               IF MaySave(errors)
               THEN [v EXCEPT !.pc = "save_all",
                              !.dtos = convert_to_dtos(q.parsed),
                              !.trace = Append(v.trace, "convert")]
               ELSE Finish(v, errors, ValidationError)]
    /\ UNCHANGED <<questions, groups, vcall>>

PutSaveAll(r) ==
    /\ req[r].pc = "save_all"
    /\ Len(questions) + Len(req[r].dtos) <= MaxQuestions
    /\ questions' = SaveAll(req[r].dtos)
    /\ LET q == req[r]
       IN  req' = [req EXCEPT ![r] =
               [q EXCEPT !.pc = "create_group",
                         !.ids = NextIds(Len(q.dtos)),
                         !.trace = Append(q.trace, "save_all")]]
    /\ UNCHANGED <<groups, vcall>>

\* QuestionDAO.save_all raises an exception put catches.
PutSaveAllRaises(r, exc) ==
    /\ req[r].pc = "save_all"
    /\ LET q == req[r]
       IN  req' = [req EXCEPT ![r] =
               Finish([q EXCEPT !.trace = Append(q.trace, "save_all")],
                      <<Err(exc)>>, ValidationError)]
    /\ UNCHANGED <<questions, groups, vcall>>

PutCreateGroup(r) ==
    /\ req[r].pc = "create_group"
    /\ Len(groups) < MaxGroups
    /\ groups' = Append(groups, create_group(req[r].description, req[r].ids))
    /\ LET q == req[r]
       IN  req' = [req EXCEPT ![r] =
               Finish([q EXCEPT !.group = Len(groups) + 1,
                                !.trace = Append(q.trace, "create_group")],
                      <<>>, Saved)]
    /\ UNCHANGED <<questions, vcall>>

\* QuestionGroupDAO.create_question_group raises an exception put catches.
PutCreateGroupRaises(r, exc) ==
    /\ req[r].pc = "create_group"
    /\ LET q == req[r]
       IN  req' = [req EXCEPT ![r] =
               Finish([q EXCEPT !.trace = Append(q.trace, "create_group")],
                      <<Err(exc)>>, ValidationError)]
    /\ UNCHANGED <<questions, groups, vcall>>

CaughtExceptions == {"ValueError", "CollisionError"}

Init ==
    /\ questions = <<>>
    /\ groups = <<>>
    /\ req = [r \in Requests |-> IdleReq]
    /\ vcall = NoCall

Next ==
    \/ \E r \in Requests : \E t \in BOOLEAN : \E a \in BOOLEAN :
           \E p \in Payloads(t, a) : PutBegin(r, t, a, p)
    \/ \E r \in Requests : PutValidateQuestions(r)
    \/ \E r \in Requests : PutValidateGroup(r)
    \/ \E r \in Requests : PutSaveAll(r)
    \/ \E r \in Requests : \E e \in CaughtExceptions : PutSaveAllRaises(r, e)
    \/ \E r \in Requests : PutCreateGroup(r)
    \/ \E r \in Requests : \E e \in CaughtExceptions : PutCreateGroupRaises(r, e)

Spec == Init /\ [][Next]_vars

\* The editors, the clone operation and one import, in any interleaving.
NextEdit ==
    \/ \E h \in {"mc", "sa"} : \E k \in {<<>>} \cup StoredKeys :
           \E d \in EditorDicts(h) : EditorPut(h, k, d)
    \/ \E k \in StoredKeys : PostCloneQuestion(k)
    \/ \E t \in BOOLEAN : \E a \in BOOLEAN : \E p \in Payloads(t, a) :
           req["r1"].pc = "idle" /\ PutBegin("r1", t, a, p)
    \/ PutValidateQuestions("r1")
    \/ PutValidateGroup("r1")
    \/ PutSaveAll("r1")
    \/ \E e \in CaughtExceptions : PutSaveAllRaises("r1", e)
    \/ PutCreateGroup("r1")
    \/ \E e \in CaughtExceptions : PutCreateGroupRaises("r1", e)

SpecEdit == Init /\ [][NextEdit]_vars

-----------------------------------------------------------------------------
(* Properties of the validation methods, checked under SpecVal.  The rules *)
(* are stated on the submitted text, without the model's parsers.          *)

Range(f) == {f[i] : i \in 1..Len(f)}

Blank(s) == \A i \in 1..Len(s) : s[i] = " "

\* The submitted texts that read as a whole number, with the number.
WholeNumbers == {<<<<"2">>, 2>>, <<<<"0">>, 0>>, <<<<"-", "1">>, -1>>,
                 <<<<" ", "3">>, 3>>, <<<<"1">>, 1>>}
IsWhole(s) == \E w \in WholeNumbers : w[1] = s
WholeOf(s) == (CHOOSE w \in WholeNumbers : w[1] = s)[2]

\* The submitted texts that read as a number.
IsNumber(s) == IsWhole(s) \/ s \in {<<"0", ".", "5">>, <<"1", ".", "5">>}

\* The stored question a key names.
KeyNames(key, id) ==
    \/ key = <<"1">> /\ id = 1
    \/ key = <<"2">> /\ id = 2

\* Some stored question other than the one key names has the description.
OtherHas(description, key) ==
    \E i \in 1..Len(questions) :
        /\ questions[i].description = description
        /\ ~KeyNames(key, questions[i].id)

CollisionMsg == Err("The description must be different from existing questions.")

Returned(op) == vcall.op = op /\ vcall.st = "returned"

\* C3: validate_no_description_collision appends the collision error if and
\* only if a stored question other than the one named by key has exactly the
\* description; every stored question is compared when key is empty, and a
\* question saved again under its own description is not a collision.
C3_CollisionIff ==
    Returned("collision") =>
        vcall.errors =
            IF OtherHas(vcall.qin.description, vcall.key)
            THEN Append(vcall.prior, CollisionMsg)
            ELSE vcall.prior

\* A question is checked against the store under its own key and its own
\* description, next to another stored question: no error is added.
C3_Witness ==
    /\ Returned("collision")
    /\ vcall.key = <<"1">>
    /\ Len(questions) = 2
    /\ questions[1].description = vcall.qin.description
    /\ questions[2].description # vcall.qin.description
    /\ vcall.errors = vcall.prior

\* The errors a multiple-choice dictionary must draw, rule by rule.
McExpected(d, key) ==
    (IF Blank(d.question)
        THEN {Err("The question must have a non-empty body.")} ELSE {})
    \cup (IF Len(d.description) = 0
        THEN {Err("The description must be non-empty.")} ELSE {})
    \cup (IF OtherHas(d.description, key) THEN {CollisionMsg} ELSE {})
    \cup (IF Len(d.choices) = 0
        THEN {Err("The question must have at least one choice.")} ELSE {})
    \cup {ErrAt("Choice %s has no response text.", i) :
            i \in {j \in 1..Len(d.choices) : Blank(d.choices[j].text)}}
    \cup {ErrAt("Choice %s must have a numeric score.", i) :
            i \in {j \in 1..Len(d.choices) : ~IsNumber(d.choices[j].score.s)}}

\* C4: McQuestionRESTHandler.validate leaves errors empty exactly when every
\* rule holds; each violated rule adds its own error, once, whatever else
\* failed, and the errors about a choice carry its 1-based index.
C4_McValidateRules ==
    Returned("mc") =>
        /\ Range(vcall.errors) = McExpected(vcall.qin, vcall.key)
        /\ Len(vcall.errors) = Cardinality(McExpected(vcall.qin, vcall.key))
        /\ (vcall.errors = <<>>) <=>
              /\ ~Blank(vcall.qin.question)
              /\ vcall.qin.description # <<>>
              /\ ~OtherHas(vcall.qin.description, vcall.key)
              /\ vcall.qin.choices # <<>>
              /\ \A i \in 1..Len(vcall.qin.choices) :
                    /\ ~Blank(vcall.qin.choices[i].text)
                    /\ IsNumber(vcall.qin.choices[i].score.s)

\* A blank body and a second choice without a numeric score: both errors.
C4_Witness ==
    /\ Returned("mc")
    /\ Blank(vcall.qin.question)
    /\ Len(vcall.qin.choices) = 2
    /\ ~IsNumber(vcall.qin.choices[2].score.s)
    /\ IsNumber(vcall.qin.choices[1].score.s)
    /\ Err("The question must have a non-empty body.") \in Range(vcall.errors)
    /\ ErrAt("Choice %s must have a numeric score.", 2) \in Range(vcall.errors)

WholeExpected(s, positive_msg, whole_msg) ==
    IF ~IsWhole(s) THEN {Err(whole_msg)}
    ELSE IF WholeOf(s) <= 0 THEN {Err(positive_msg)} ELSE {}

\* The errors a short-answer dictionary must draw, rule by rule.
SaExpected(d, key) ==
    (IF Blank(d.question)
        THEN {Err("The question must have a non-empty body.")} ELSE {})
    \cup (IF Len(d.description) = 0
        THEN {Err("The description must be non-empty.")} ELSE {})
    \cup (IF OtherHas(d.description, key) THEN {CollisionMsg} ELSE {})
    \cup WholeExpected(d.rows.s, "Rows must be a positive whole number",
                       "Rows must be a whole number")
    \cup WholeExpected(d.columns.s, "Columns must be a positive whole number",
                       "Columns must be a whole number")
    \cup (IF Len(d.graders) = 0
        THEN {Err("The question must have at least one answer.")} ELSE {})
    \cup {ErrAt("Answer %s has no response text.", i) :
            i \in {j \in 1..Len(d.graders) : Blank(d.graders[j].response)}}
    \cup {ErrAt("Answer %s must have a numeric score.", i) :
            i \in {j \in 1..Len(d.graders) : ~IsNumber(d.graders[j].score.s)}}

\* C5: SaQuestionRESTHandler.validate leaves errors empty exactly when every
\* rule holds; a rows or columns value that is a whole number <= 0 draws the
\* 'positive whole number' error, one that is no whole number draws the
\* 'whole number' error, and no field draws both.
C5_SaValidateRules ==
    Returned("sa") =>
        /\ Range(vcall.errors) = SaExpected(vcall.qin, vcall.key)
        /\ Len(vcall.errors) = Cardinality(SaExpected(vcall.qin, vcall.key))
        /\ ~({Err("Rows must be a positive whole number"),
              Err("Rows must be a whole number")} \subseteq Range(vcall.errors))
        /\ ~({Err("Columns must be a positive whole number"),
              Err("Columns must be a whole number")}
                 \subseteq Range(vcall.errors))
        /\ (vcall.errors = <<>>) <=>
              /\ ~Blank(vcall.qin.question)
              /\ vcall.qin.description # <<>>
              /\ ~OtherHas(vcall.qin.description, vcall.key)
              /\ IsWhole(vcall.qin.rows.s) /\ WholeOf(vcall.qin.rows.s) > 0
              /\ IsWhole(vcall.qin.columns.s)
              /\ WholeOf(vcall.qin.columns.s) > 0
              /\ vcall.qin.graders # <<>>
              /\ \A i \in 1..Len(vcall.qin.graders) :
                    /\ ~Blank(vcall.qin.graders[i].response)
                    /\ IsNumber(vcall.qin.graders[i].score.s)

\* Rows is "0" and columns is empty: one error each, of the two kinds.
C5_Witness ==
    /\ Returned("sa")
    /\ vcall.qin.rows.s = <<"0">>
    /\ vcall.qin.columns.s = <<>>
    /\ Err("Rows must be a positive whole number") \in Range(vcall.errors)
    /\ Err("Columns must be a whole number") \in Range(vcall.errors)
    /\ Err("Rows must be a whole number") \notin Range(vcall.errors)

\* C6: after validate returns with no errors no numeric field of the
\* dictionary is still a string: every choice score is a float, rows and
\* columns are integers and every grader score is a number.
C6_NumericFieldsCoerced ==
    /\ (Returned("mc") /\ vcall.errors = <<>>) =>
           \A i \in 1..Len(vcall.qout.choices) :
               vcall.qout.choices[i].score.t = "float"
    /\ (Returned("sa") /\ vcall.errors = <<>>) =>
           /\ vcall.qout.rows.t = "int"
           /\ vcall.qout.columns.t = "int"
           /\ \A i \in 1..Len(vcall.qout.graders) :
                  vcall.qout.graders[i].score.t \in {"int", "float"}

-----------------------------------------------------------------------------
(* Properties of the datastore and of GiftQuestionRESTHandler.put.         *)

Pipeline == <<"xsrf", "role", "parse", "get_all_questions", "get_all_groups",
              "convert", "save_all", "create_group">>

IsPrefix(s, t) == Len(s) <= Len(t) /\ SubSeq(t, 1, Len(s)) = s

Called(r, step) == step \in Range(req[r].trace)

\* The request stored nothing.
WroteNothing(r) == req[r].ids = <<>> /\ req[r].group = 0

\* Validation of the request must fail: the text did not parse, or a parsed
\* question or the group carries a description that was stored when read.
MustFailValidation(r) ==
    \/ ~req[r].parseOk
    \/ \E i \in 1..Len(req[r].parsed) :
           req[r].parsed[i].description \in req[r].seenQ
    \/ req[r].description \in req[r].seenG

\* C1: put runs parse, validate, convert, save questions, create group in
\* that order, and a request whose text does not parse or whose question or
\* group descriptions are already stored never calls save_all or
\* create_question_group, stores nothing and is answered a validation error.
C1_SaveGatedOnValidation ==
    \A r \in Requests :
        /\ IsPrefix(req[r].trace, Pipeline)
        /\ (Called(r, "parse") /\ req[r].pc \notin {"validate_questions",
                                                    "validate_group"}
              /\ MustFailValidation(r)) =>
               /\ req[r].pc = "done"
               /\ ~Called(r, "save_all")
               /\ ~Called(r, "create_group")
               /\ WroteNothing(r)
               /\ req[r].response = ValidationError

\* A request whose group description was already stored has been answered.
C1_Witness ==
    \E r \in Requests :
        /\ req[r].pc = "done"
        /\ req[r].parseOk /\ req[r].parsed # <<>>
        /\ req[r].description \in req[r].seenG
        /\ req[r].response = ValidationError

\* C2: whatever editor saves, clones and imports have run, no two stored
\* questions have the same description.
C2_UniqueQuestionDescriptions ==
    \A i, j \in 1..Len(questions) :
        questions[i].description = questions[j].description => i = j

IdText(id) == <<<<"1">>, <<"2">>, <<"3">>, <<"4">>, <<"5">>, <<"6">>,
                <<"7">>, <<"8">>, <<"9">>>>[id]

\* C7: a saved import has created one group, with the submitted description
\* and one item per imported question in the order of the ids save_all
\* returned, each the id as a string with weight 1.0; convert_to_dtos gives
\* one DTO per parsed question in order, MULTIPLE_CHOICE for 'multi_choice'
\* and SHORT_ANSWER for every other type.
C7_GroupOfImport ==
    \A r \in Requests :
        /\ Called(r, "convert") =>
               /\ Len(req[r].dtos) = Len(req[r].parsed)
               /\ \A i \in 1..Len(req[r].parsed) :
                      /\ req[r].dtos[i].description =
                             req[r].parsed[i].description
                      /\ req[r].dtos[i].type =
                             IF req[r].parsed[i].type = "multi_choice"
                             THEN MULTIPLE_CHOICE ELSE SHORT_ANSWER
        /\ req[r].response = Saved =>
               /\ req[r].group \in 1..Len(groups)
               /\ Cardinality({i \in 1..Len(req[r].trace) :
                                  req[r].trace[i] = "create_group"}) = 1
               /\ LET g == groups[req[r].group]
                  IN  /\ g.description = req[r].description
                      /\ Len(g.items) = Len(req[r].parsed)
                      /\ Len(req[r].ids) = Len(req[r].parsed)
                      /\ \A i \in 1..Len(g.items) :
                             /\ g.items[i].question = IdText(req[r].ids[i])
                             /\ g.items[i].weight = FloatVal(10, 1)
                             /\ questions[req[r].ids[i]].description =
                                    req[r].parsed[i].description
                             /\ questions[req[r].ids[i]].type =
                                    req[r].dtos[i].type

\* A saved import of a short-answer question followed by a multiple-choice one.
C7_Witness ==
    \E r \in Requests :
        /\ req[r].response = Saved
        /\ Len(req[r].parsed) = 2
        /\ req[r].parsed[1].type = "short_answer"
        /\ req[r].parsed[2].type = "multi_choice"
        /\ Len(groups[req[r].group].items) = 2

\* C8: an import is all or nothing: a request answered with an error has
\* stored nothing, and a request answered 'Saved' has stored every parsed
\* question and one group.
C8_AllOrNothing ==
    \A r \in Requests :
        req[r].pc = "done" =>
            /\ req[r].response # Saved => WroteNothing(r)
            /\ req[r].response = Saved =>
                   /\ Len(req[r].ids) = Len(req[r].parsed)
                   /\ req[r].group # 0

\* C9: once the concurrent requests have all ended, no two stored groups and
\* no two stored questions have the same description.
C9_UniqueAfterConcurrentPuts ==
    (\A r \in Requests : req[r].pc \in {"idle", "done"}) =>
        /\ \A i, j \in 1..Len(groups) :
               groups[i].description = groups[j].description => i = j
        /\ \A i, j \in 1..Len(questions) :
               questions[i].description = questions[j].description => i = j

\* C10: the XSRF token is checked first and the role second; a request that
\* fails either check parses nothing, reads and stores nothing, and a
\* non-admin with a valid token is answered 401 'Access denied.'.
C10_AuthorisedBeforeAnything ==
    \A r \in Requests :
        req[r].pc # "idle" =>
            /\ req[r].trace[1] = "xsrf"
            /\ Len(req[r].trace) >= 2 => req[r].trace[2] = "role"
            /\ ~req[r].tokenOk =>
                   /\ req[r].trace = <<"xsrf">>
                   /\ req[r].pc = "done" /\ WroteNothing(r)
                   /\ req[r].response.code # 200
            /\ (req[r].tokenOk /\ ~req[r].isAdmin) =>
                   /\ req[r].trace = <<"xsrf", "role">>
                   /\ req[r].pc = "done" /\ WroteNothing(r)
                   /\ req[r].response = [code |-> 401,
                                         message |-> "Access denied."]
            /\ Len(req[r].trace) > 2 => (req[r].tokenOk /\ req[r].isAdmin)

\* A non-admin with a valid token has been answered.
C10_Witness ==
    \E r \in Requests :
        /\ req[r].pc = "done"
        /\ req[r].tokenOk /\ ~req[r].isAdmin
        /\ req[r].response.code = 401

=============================================================================
